---- MODULE Spec2Model ----
(***************************************************************************)
(* Model of the resource-allocation engine of                              *)
(* automatic_deadlock_detection_tool: the Banker's-algorithm ledger of     *)
(* src/bankeralgodeadlock.py (class BankersAlgorithm) and the wait-for     *)
(* bookkeeping of src/deadlockdetection.py (class DeadlockDetector).       *)
(*                                                                         *)
(* Lists are modelled as functions over 0..n-1, so that thread and         *)
(* resource indices are the source's.  A list of lists (allocation, need)  *)
(* is a function from the row index to the row's contents; the row         *)
(* objects themselves are never replaced by the code, only mutated in      *)
(* place, so a row is identified by its index.                             *)
(***************************************************************************)
EXTENDS Integers, Sequences, FiniteSets

VARIABLES
    num_resources,  \* self.num_resources
    available,      \* self.available
    max,            \* self.max
    allocation,     \* self.allocation
    need,           \* self.need
    op,             \* the last call: [kind, thread_id, amounts]
    ret,            \* what the last request/release call returned
    outcome,        \* the branch the last call took
    safe,           \* what the last is_safe call returned: [ok, seq]
    pre,            \* the ledger as it was before the last call
    undone,         \* after a release that directly follows a granted request
                    \* of the same thread and amounts: the ledger before that
                    \* request
    calls,          \* number of calls made so far
    resource_status,    \* DeadlockDetector: self.resource_status
    thread_locks,       \* DeadlockDetector: self.thread_locks
    waiting_threads,    \* DeadlockDetector: self.waiting_threads
    pc,             \* per thread: the statement it is about to execute
    local           \* per thread: the locals of the call it is in

\* The fields of the DeadlockDetector object
detvars == <<resource_status, thread_locks, waiting_threads>>
\* The threads' positions and locals
threadvars == <<pc, local>>

vars == <<num_resources, available, max, allocation, need,
          op, ret, outcome, safe, pre, undone, calls,
          resource_status, thread_locks, waiting_threads, pc, local>>

-----------------------------------------------------------------------------
(* Bounds of the model *)

\* calls made on one ledger
MaxCalls == 4
\* largest entry of the one-class ledgers is_safe is applied to on its own
MaxUnits == 3
\* request_resource and release_resource calls made on one detector
MaxDetCalls == 5

-----------------------------------------------------------------------------
(* Program constants *)

num_threads == 3
InitialAvailable == 3

Threads == 0 .. (num_threads - 1)
Resources(n) == 0 .. (n - 1)

Vec(a, b, c) == [j \in 0..2 |-> IF j = 0 THEN a ELSE IF j = 1 THEN b ELSE c]
Rows(r0, r1, r2) == [i \in 0..2 |-> IF i = 0 THEN r0 ELSE IF i = 1 THEN r1 ELSE r2]

\* self.max of __init__
InitialMax == Rows(Vec(7, 5, 3), Vec(3, 2, 2), Vec(9, 0, 2))
\* self.allocation of __init__
InitialAllocation == Rows(Vec(0, 0, 0), Vec(0, 0, 0), Vec(0, 0, 0))

\* The object: the fields the methods read and write.
Self == [num_resources |-> num_resources, available |-> available,
         max |-> max, allocation |-> allocation, need |-> need]

\* The ledger: the three mutable fields.
LedgerOf(self) == [available |-> self.available,
                   allocation |-> self.allocation,
                   need |-> self.need]
Ledger == LedgerOf(Self)

\* The scan taken from the highest index down.
Highest(S) == CHOOSE x \in S : \A y \in S : x >= y

Min(S) == CHOOSE x \in S : \A y \in S : x <= y

-----------------------------------------------------------------------------
(* calculate_need *)

calculate_need(self) ==
    [i \in Threads |->
        [j \in Resources(self.num_resources) |->
            self.max[i][j] - self.allocation[i][j]]]

-----------------------------------------------------------------------------
(* is_safe *)

\* any() where the code has all()
CanFinish_any(self, work, i) ==
    \E j \in Resources(self.num_resources) : self.need[i][j] <= work[j]

\* need[i][j] <= work[j] for every j
CanFinish(self, work, i) ==
    \A j \in Resources(self.num_resources) : self.need[i][j] <= work[j]

\* One iteration of the while loop: the for loop scans the threads from 0 and
\* breaks at the first unfinished one that can finish; the next iteration
\* scans from 0 again.
RECURSIVE SafeLoop(_, _, _, _)
SafeLoop(self, work, finish, safe_sequence) ==
    IF Len(safe_sequence) >= num_threads
    THEN [ok |-> TRUE, seq |-> safe_sequence]
    ELSE LET able == {i \in Threads : ~finish[i] /\ CanFinish(self, work, i)}
         IN  IF able = {}
             THEN [ok |-> FALSE, seq |-> safe_sequence]
             ELSE LET i == Min(able)
                  IN  SafeLoop(self,
                               [j \in Resources(self.num_resources) |->
                                   work[j] + self.allocation[i][j]],
                               [finish EXCEPT ![i] = TRUE],
                               Append(safe_sequence, i))

\* A single scan that never goes back to thread 0 after a thread finishes.
RECURSIVE SinglePass(_, _, _, _)
SinglePass(self, work, i, safe_sequence) ==
    IF i >= num_threads
    THEN [ok |-> Len(safe_sequence) >= num_threads, seq |-> safe_sequence]
    ELSE IF CanFinish(self, work, i)
         THEN SinglePass(self,
                         [j \in Resources(self.num_resources) |->
                             work[j] + self.allocation[i][j]],
                         i + 1, Append(safe_sequence, i))
         ELSE SinglePass(self, work, i + 1, safe_sequence)

is_safe_no_rescan(self) == SinglePass(self, self.available, 0, <<>>)

is_safe(self) ==
    SafeLoop(self, self.available, [i \in Threads |-> FALSE], <<>>)

-----------------------------------------------------------------------------
(* request_resources *)

ExceedsNeed(self, thread_id, request) ==
    \E i \in Resources(self.num_resources) : request[i] > self.need[thread_id][i]

ExceedsAvailable(self, request) ==
    \E i \in Resources(self.num_resources) : request[i] > self.available[i]

\* The allocation loop without its last statement.
Allocate_keeps_need(self, thread_id, request) ==
    [self EXCEPT
        !.available = [i \in Resources(self.num_resources) |->
                          self.available[i] - request[i]],
        !.allocation[thread_id] = [i \in Resources(self.num_resources) |->
                          self.allocation[thread_id][i] + request[i]]]

\* The allocation loop: mutates self.available and, in place, the rows
\* self.allocation[thread_id] and self.need[thread_id].
Allocate(self, thread_id, request) ==
    [self EXCEPT
        !.available = [i \in Resources(self.num_resources) |->
                          self.available[i] - request[i]],
        !.allocation[thread_id] = [i \in Resources(self.num_resources) |->
                          self.allocation[thread_id][i] + request[i]],
        !.need[thread_id] = [i \in Resources(self.num_resources) |->
                          self.need[thread_id][i] - request[i]]]

\* rows[:] of a list of lists: a new outer list holding the same row objects.
RowRefs(rows) == [i \in DOMAIN rows |-> i]
\* The contents, now, of the rows an outer list refers to.
Deref(refs, rows) == [i \in DOMAIN refs |-> rows[refs[i]]]

\* The safety check made on the ledger as it is before the allocation loop.
PretendAllocate_checks_first(self, thread_id, request) ==
    LET original_available == self.available
        original_allocation == RowRefs(self.allocation)
        original_need == RowRefs(self.need)
        result == is_safe(self)
        allocated == Allocate(self, thread_id, request)
    IN  IF ~result.ok
        THEN [self |-> [allocated EXCEPT
                          !.available = original_available,
                          !.allocation = Deref(original_allocation, allocated.allocation),
                          !.need = Deref(original_need, allocated.need)],
              ret |-> "False", outcome |-> "DeniedUnsafe", safe |-> result]
        ELSE [self |-> allocated,
              ret |-> "True", outcome |-> "Granted", safe |-> result]

\* Lines 58-80: snapshot, allocate, validate, roll back or keep.
\* original_available is a copy of a list of integers; original_allocation and
\* original_need are copies of the outer lists only, whose rows are the rows
\* the allocation loop mutates.
PretendAllocate(self, thread_id, request) ==
    LET original_available == self.available
        original_allocation == RowRefs(self.allocation)
        original_need == RowRefs(self.need)
        allocated == Allocate(self, thread_id, request)
        result == is_safe(allocated)
    IN  IF ~result.ok
        THEN [self |-> [allocated EXCEPT
                          !.available = original_available,
                          !.allocation = Deref(original_allocation, allocated.allocation),
                          !.need = Deref(original_need, allocated.need)],
              ret |-> "False", outcome |-> "DeniedUnsafe", safe |-> result]
        ELSE [self |-> allocated,
              ret |-> "True", outcome |-> "Granted", safe |-> result]

\* The availability check made after the allocation loop instead of before it.
request_resources_late_check(self, thread_id, request) ==
    IF ExceedsNeed(self, thread_id, request)
    THEN [self |-> self, ret |-> "False", outcome |-> "ExceedsDeclaredNeed",
          safe |-> safe]
    ELSE IF ExceedsAvailable(self, request)
    THEN [self |-> Allocate(self, thread_id, request), ret |-> "False",
          outcome |-> "InsufficientAvailable", safe |-> safe]
    ELSE PretendAllocate(self, thread_id, request)

request_resources(self, thread_id, request) ==
    IF ExceedsNeed(self, thread_id, request)
    THEN [self |-> self, ret |-> "False", outcome |-> "ExceedsDeclaredNeed",
          safe |-> safe]
    ELSE IF ExceedsAvailable(self, request)
    THEN [self |-> self, ret |-> "False", outcome |-> "InsufficientAvailable",
          safe |-> safe]
    ELSE PretendAllocate(self, thread_id, request)

-----------------------------------------------------------------------------
(* release_resources *)

\* The release loop without its first statement.
release_resources_keeps_available(self, thread_id, release) ==
    [self EXCEPT
        !.allocation[thread_id] = [i \in Resources(self.num_resources) |->
                          self.allocation[thread_id][i] - release[i]],
        !.need[thread_id] = [i \in Resources(self.num_resources) |->
                          self.need[thread_id][i] + release[i]]]

\* The release loop without its last statement.
release_resources_keeps_need(self, thread_id, release) ==
    [self EXCEPT
        !.available = [i \in Resources(self.num_resources) |->
                          self.available[i] + release[i]],
        !.allocation[thread_id] = [i \in Resources(self.num_resources) |->
                          self.allocation[thread_id][i] - release[i]]]

release_resources(self, thread_id, release) ==
    [self EXCEPT
        !.available = [i \in Resources(self.num_resources) |->
                          self.available[i] + release[i]],
        !.allocation[thread_id] = [i \in Resources(self.num_resources) |->
                          self.allocation[thread_id][i] - release[i]],
        !.need[thread_id] = [i \in Resources(self.num_resources) |->
                          self.need[thread_id][i] + release[i]]]

-----------------------------------------------------------------------------
(* The calls made on the ledger *)

\* The amount vectors callers pass: the zero vector, the request of
\* example_thread_work, and two larger ones.
Amounts == {Vec(0, 0, 0), Vec(1, 0, 2), Vec(3, 2, 0), Vec(3, 0, 0)}

NoCall == [kind |-> "none", thread_id |-> 0, amounts |-> Vec(0, 0, 0)]
NoSafe == [ok |-> FALSE, seq |-> <<>>]
NoLedger == [available |-> <<>>, allocation |-> <<>>, need |-> <<>>]

\* No DeadlockDetector object, and no thread inside a call
NoDetector ==
    /\ resource_status = <<>>
    /\ thread_locks = <<>>
    /\ waiting_threads = <<>>
NoThreads ==
    /\ pc = <<>>
    /\ local = <<>>

\* BankersAlgorithm(num_resources=3, num_threads=3)
Init ==
    /\ num_resources = 3
    /\ available = [j \in Resources(3) |-> InitialAvailable]
    /\ max = InitialMax
    /\ allocation = InitialAllocation
    /\ need = calculate_need([num_resources |-> 3, max |-> InitialMax,
                              allocation |-> InitialAllocation])
    /\ op = NoCall
    /\ ret = "None"
    /\ outcome = "none"
    /\ safe = NoSafe
    /\ pre = NoLedger
    /\ undone = NoLedger
    /\ calls = 0
    /\ NoDetector
    /\ NoThreads

Request(thread_id, request) ==
    LET r == request_resources(Self, thread_id, request)
    IN  /\ calls < MaxCalls
        /\ available' = r.self.available
        /\ allocation' = r.self.allocation
        /\ need' = r.self.need
        /\ op' = [kind |-> "request", thread_id |-> thread_id, amounts |-> request]
        /\ ret' = r.ret
        /\ outcome' = r.outcome
        /\ safe' = r.safe
        /\ pre' = Ledger
        /\ undone' = NoLedger
        /\ calls' = calls + 1
        /\ UNCHANGED <<num_resources, max, detvars, threadvars>>

Release(thread_id, release) ==
    LET s == release_resources(Self, thread_id, release)
    IN  /\ calls < MaxCalls
        /\ available' = s.available
        /\ allocation' = s.allocation
        /\ need' = s.need
        /\ op' = [kind |-> "release", thread_id |-> thread_id, amounts |-> release]
        /\ ret' = "None"
        /\ outcome' = "Released"
        /\ pre' = Ledger
        /\ undone' = IF /\ op.kind = "request"
                        /\ outcome = "Granted"
                        /\ op.thread_id = thread_id
                        /\ op.amounts = release
                     THEN pre
                     ELSE NoLedger
        /\ calls' = calls + 1
        /\ UNCHANGED <<num_resources, max, safe, detvars, threadvars>>

Next ==
    \/ \E t \in Threads, a \in Amounts : Request(t, a)
    \/ \E t \in Threads, a \in Amounts : Release(t, a)

Spec == Init /\ [][Next]_vars

-----------------------------------------------------------------------------
(* is_safe on its own: applied to ledgers drawn from bounded sets *)

\* Ledgers of one class have entries up to MaxUnits; ledgers of two classes
\* have entries 0 and 1.
ClassCounts == {1, 2}
Units(n) == IF n = 1 THEN 0 .. MaxUnits ELSE 0 .. 1

\* Scenario A: the snapshot of the classic example.
ScenarioAAvailable == Vec(3, 3, 2)
ScenarioAAllocation == Rows(Vec(0, 1, 0), Vec(2, 0, 0), Vec(3, 0, 2))
ScenarioANeed ==
    calculate_need([num_resources |-> 3, max |-> InitialMax,
                    allocation |-> ScenarioAAllocation])
ScenarioA == [available |-> ScenarioAAvailable,
              allocation |-> ScenarioAAllocation,
              need |-> ScenarioANeed]

InitLedgers ==
    \/ /\ num_resources \in ClassCounts
       /\ available \in [Resources(num_resources) -> Units(num_resources)]
       /\ allocation \in [Threads -> [Resources(num_resources) -> Units(num_resources)]]
       /\ need \in [Threads -> [Resources(num_resources) -> Units(num_resources)]]
       /\ max = [i \in Threads |-> [j \in Resources(num_resources) |->
                    allocation[i][j] + need[i][j]]]
    \/ /\ num_resources = 3
       /\ available = ScenarioAAvailable
       /\ allocation = ScenarioAAllocation
       /\ need = ScenarioANeed
       /\ max = InitialMax

InitSafe ==
    /\ InitLedgers
    /\ op = NoCall
    /\ ret = "None"
    /\ outcome = "none"
    /\ safe = NoSafe
    /\ pre = NoLedger
    /\ undone = NoLedger
    /\ calls = 0
    /\ NoDetector
    /\ NoThreads

CallIsSafe ==
    /\ safe' = is_safe(Self)
    /\ op' = [kind |-> "is_safe", thread_id |-> 0, amounts |-> Vec(0, 0, 0)]
    /\ pre' = Ledger
    /\ UNCHANGED <<num_resources, available, max, allocation, need,
                   ret, outcome, undone, calls, detvars, threadvars>>

NextSafe == CallIsSafe

SpecSafe == InitSafe /\ [][NextSafe]_vars

-----------------------------------------------------------------------------
(* release_resources on its own: one release, of no more than the thread    *)
(* holds, applied to a ledger drawn from the bounded sets                   *)

ReleaseWithin(thread_id, release) ==
    LET s == release_resources(Self, thread_id, release)
    IN  /\ calls = 0
        /\ \A c \in Resources(num_resources) :
              release[c] <= allocation[thread_id][c]
        /\ available' = s.available
        /\ allocation' = s.allocation
        /\ need' = s.need
        /\ op' = [kind |-> "release", thread_id |-> thread_id, amounts |-> release]
        /\ ret' = "None"
        /\ outcome' = "Released"
        /\ pre' = Ledger
        /\ calls' = calls + 1
        /\ UNCHANGED <<num_resources, max, safe, undone, detvars, threadvars>>

NextRelease ==
    \E t \in Threads :
        \E a \in [Resources(num_resources) -> Units(num_resources)] :
            ReleaseWithin(t, a)

SpecRelease == InitSafe /\ [][NextRelease]_vars

-----------------------------------------------------------------------------
(* DeadlockDetector (src/deadlockdetection.py) *)

\* detector = DeadlockDetector(num_resources=3, num_threads=3)
det_num_resources == 3
det_num_threads == 3
\* None, in a list whose other entries are indices
None == -1

DetThreads == 0 .. (det_num_threads - 1)
DetResources == 0 .. (det_num_resources - 1)

\* The detector object
Detector == [resource_status |-> resource_status,
             thread_locks |-> thread_locks,
             waiting_threads |-> waiting_threads]

request_resource(self, thread_id, resource_id) ==
    IF self.resource_status[resource_id] = None
    THEN [self EXCEPT !.resource_status[resource_id] = thread_id,
                      !.thread_locks[thread_id] = resource_id]
    ELSE [self EXCEPT !.waiting_threads[thread_id] = @ \cup {resource_id}]

release_resource(self, thread_id, resource_id) ==
    IF self.thread_locks[thread_id] = resource_id
    THEN [self EXCEPT !.resource_status[resource_id] = None,
                      !.thread_locks[thread_id] = None]
    ELSE self

\* The threads is_deadlock(thread_id) looks at, in the order of its two for
\* loops: for each resource of waiting_threads[thread_id] (a set of small
\* integers iterates in increasing order), each other thread, from 0, whose
\* lock slot names that resource.
Targets(self, thread_id) ==
    LET n == det_num_threads
        pairs == [k \in 1 .. (det_num_resources * n) |-> k - 1]
        Hit(k) == LET resource == k \div n
                      other_thread == k % n
                  IN  /\ resource \in self.waiting_threads[thread_id]
                      /\ other_thread # thread_id
                      /\ self.thread_locks[other_thread] = resource
        hits == SelectSeq(pairs, Hit)
    IN  [m \in 1 .. Len(hits) |-> hits[m] % n]

RECURSIVE is_deadlock(_, _, _, _)
RECURSIVE ScanTargets(_, _, _, _, _, _)

\* The loops with "visited" taken for "on the stack".
ScanTargets_visited_is_cycle(self, thread_id, targets, idx, visited, rec_stack) ==
    IF idx > Len(targets)
    THEN [found |-> FALSE, visited |-> visited,
          rec_stack |-> [rec_stack EXCEPT ![thread_id] = FALSE]]
    ELSE LET other_thread == targets[idx]
         IN  IF ~visited[other_thread]
             THEN LET r == is_deadlock(self, other_thread, visited, rec_stack)
                  IN  IF r.found
                      THEN [found |-> TRUE, visited |-> r.visited,
                            rec_stack |-> r.rec_stack]
                      ELSE ScanTargets(self, thread_id, targets, idx + 1,
                                       r.visited, r.rec_stack)
             ELSE [found |-> TRUE, visited |-> visited, rec_stack |-> rec_stack]

\* The nested for loops of is_deadlock(thread_id), from the idx-th target on
ScanTargets(self, thread_id, targets, idx, visited, rec_stack) ==
    IF idx > Len(targets)
    THEN [found |-> FALSE, visited |-> visited,
          rec_stack |-> [rec_stack EXCEPT ![thread_id] = FALSE]]
    ELSE LET other_thread == targets[idx]
         IN  IF ~visited[other_thread]
             THEN LET r == is_deadlock(self, other_thread, visited, rec_stack)
                  IN  IF r.found \/ r.rec_stack[other_thread]
                      THEN [found |-> TRUE, visited |-> r.visited,
                            rec_stack |-> r.rec_stack]
                      ELSE ScanTargets(self, thread_id, targets, idx + 1,
                                       r.visited, r.rec_stack)
             ELSE IF rec_stack[other_thread]
                  THEN [found |-> TRUE, visited |-> visited,
                        rec_stack |-> rec_stack]
                  ELSE ScanTargets(self, thread_id, targets, idx + 1,
                                   visited, rec_stack)

is_deadlock(self, thread_id, visited, rec_stack) ==
    ScanTargets(self, thread_id, Targets(self, thread_id), 1,
                [visited EXCEPT ![thread_id] = TRUE],
                [rec_stack EXCEPT ![thread_id] = TRUE])

RECURSIVE CheckFrom(_, _, _, _)
\* The for loop of check_deadlock, from thread_id on
CheckFrom(self, thread_id, visited, rec_stack) ==
    IF thread_id >= det_num_threads
    THEN FALSE
    ELSE IF visited[thread_id]
         THEN CheckFrom(self, thread_id + 1, visited, rec_stack)
         ELSE LET r == is_deadlock(self, thread_id, visited, rec_stack)
              IN  IF r.found
                  THEN TRUE
                  ELSE CheckFrom(self, thread_id + 1, r.visited, r.rec_stack)

check_deadlock(self) ==
    CheckFrom(self, 0, [t \in DetThreads |-> FALSE], [t \in DetThreads |-> FALSE])

\* The threads that hold a lock slot
LockHolders(self) == {t \in DetThreads : self.thread_locks[t] # None}

\* One pass of the while loop of deadlock_prevention: on a detection, the
\* first thread whose lock slot is set releases it, and the method returns.
deadlock_prevention(self) ==
    IF check_deadlock(self)
    THEN IF LockHolders(self) # {}
         THEN LET thread_id == Min(LockHolders(self))
              IN  release_resource(self, thread_id, self.thread_locks[thread_id])
         ELSE self
    ELSE self

-----------------------------------------------------------------------------
(* The calls made on the detector, one at a time *)

\* No BankersAlgorithm object
NoBanker ==
    /\ num_resources = 0
    /\ available = <<>>
    /\ max = <<>>
    /\ allocation = <<>>
    /\ need = <<>>
    /\ safe = NoSafe
    /\ undone = NoLedger
    /\ calls = 0

bankvars == <<num_resources, available, max, allocation, need, safe, undone, calls>>
detbankvars == <<num_resources, available, max, allocation, need, safe, undone>>

NoDetCall == [kind |-> "none", thread_id |-> 0, resource_id |-> 0]

\* DeadlockDetector(num_resources=3, num_threads=3)
InitDetector ==
    /\ resource_status = [r \in DetResources |-> None]
    /\ thread_locks = [t \in DetThreads |-> None]
    /\ waiting_threads = [t \in DetThreads |-> {}]

InitDet ==
    /\ InitDetector
    /\ NoBanker
    /\ NoThreads
    /\ op = NoDetCall
    /\ ret = "None"
    /\ outcome = "none"
    /\ pre = Detector

SetDetector(self) ==
    /\ resource_status' = self.resource_status
    /\ thread_locks' = self.thread_locks
    /\ waiting_threads' = self.waiting_threads

DetRequest(thread_id, resource_id) ==
    /\ calls < MaxDetCalls
    /\ calls' = calls + 1
    /\ SetDetector(request_resource(Detector, thread_id, resource_id))
    /\ op' = [kind |-> "request", thread_id |-> thread_id, resource_id |-> resource_id]
    /\ ret' = "None"
    /\ outcome' = IF resource_status[resource_id] = None THEN "acquired" ELSE "waiting"
    /\ pre' = Detector
    /\ UNCHANGED <<detbankvars, threadvars>>

DetRelease(thread_id, resource_id) ==
    /\ calls < MaxDetCalls
    /\ calls' = calls + 1
    /\ SetDetector(release_resource(Detector, thread_id, resource_id))
    /\ op' = [kind |-> "release", thread_id |-> thread_id, resource_id |-> resource_id]
    /\ ret' = "None"
    /\ outcome' = IF thread_locks[thread_id] = resource_id THEN "released" ELSE "ignored"
    /\ pre' = Detector
    /\ UNCHANGED <<detbankvars, threadvars>>

DetCheck ==
    /\ op' = [kind |-> "check_deadlock", thread_id |-> 0, resource_id |-> 0]
    /\ ret' = IF check_deadlock(Detector) THEN "True" ELSE "False"
    /\ outcome' = "checked"
    /\ pre' = Detector
    /\ UNCHANGED <<detvars, bankvars, threadvars>>

DetPrevention ==
    /\ SetDetector(deadlock_prevention(Detector))
    /\ op' = [kind |-> "deadlock_prevention", thread_id |-> 0, resource_id |-> 0]
    /\ ret' = "None"
    /\ outcome' = IF check_deadlock(Detector) THEN "detected" ELSE "nothing"
    /\ pre' = Detector
    /\ UNCHANGED <<bankvars, threadvars>>

NextDet ==
    \/ \E t \in DetThreads, r \in DetResources : DetRequest(t, r)
    \/ \E t \in DetThreads, r \in DetResources : DetRelease(t, r)
    \/ DetCheck
    \/ DetPrevention

SpecDet == InitDet /\ [][NextDet]_vars

-----------------------------------------------------------------------------
(* The threads of deadlockdetection.py: three threads run                   *)
(* example_thread_work on one detector, with no lock; a step is one         *)
(* statement of request_resource or release_resource.                       *)

\* The calls of example_thread_work, in order
ExampleWork ==
    << [kind |-> "request", resource_id |-> 0],
       [kind |-> "request", resource_id |-> 1],
       [kind |-> "release", resource_id |-> 0],
       [kind |-> "release", resource_id |-> 1] >>

\* The first statement of the k-th call, or "done" after the last one
EnterCall(k) ==
    IF k > Len(ExampleWork) THEN "done"
    ELSE IF ExampleWork[k].kind = "request" THEN "test_status" ELSE "test_lock"

InitDetRace ==
    /\ InitDetector
    /\ NoBanker
    /\ op = NoDetCall
    /\ ret = "None"
    /\ outcome = "none"
    /\ pre = Detector
    /\ pc = [t \in DetThreads |-> EnterCall(1)]
    /\ local = [t \in DetThreads |-> 1]

\* The resource of the call thread t is in
ResourceOf(t) == ExampleWork[local[t]].resource_id

\* Thread t returns from its call and enters the next one
ReturnFrom(t) ==
    /\ pc' = [pc EXCEPT ![t] = EnterCall(local[t] + 1)]
    /\ local' = [local EXCEPT ![t] = @ + 1]

RaceUnchanged == UNCHANGED <<bankvars, op, ret, outcome, pre>>

\* line 14: if self.resource_status[resource_id] is None
TestStatus(t) ==
    /\ pc[t] = "test_status"
    /\ pc' = [pc EXCEPT ![t] = IF resource_status[ResourceOf(t)] = None
                               THEN "set_status" ELSE "add_waiting"]
    /\ UNCHANGED <<detvars, local>>
    /\ RaceUnchanged

\* line 15: self.resource_status[resource_id] = thread_id
SetStatus(t) ==
    /\ pc[t] = "set_status"
    /\ resource_status' = [resource_status EXCEPT ![ResourceOf(t)] = t]
    /\ pc' = [pc EXCEPT ![t] = "set_lock"]
    /\ UNCHANGED <<thread_locks, waiting_threads, local>>
    /\ RaceUnchanged

\* line 16: self.thread_locks[thread_id] = resource_id
SetLock(t) ==
    /\ pc[t] = "set_lock"
    /\ thread_locks' = [thread_locks EXCEPT ![t] = ResourceOf(t)]
    /\ ReturnFrom(t)
    /\ UNCHANGED <<resource_status, waiting_threads>>
    /\ RaceUnchanged

\* line 20: self.waiting_threads[thread_id].add(resource_id)
AddWaiting(t) ==
    /\ pc[t] = "add_waiting"
    /\ waiting_threads' = [waiting_threads EXCEPT ![t] = @ \cup {ResourceOf(t)}]
    /\ ReturnFrom(t)
    /\ UNCHANGED <<resource_status, thread_locks>>
    /\ RaceUnchanged

\* line 25: if self.thread_locks[thread_id] == resource_id
TestLock(t) ==
    /\ pc[t] = "test_lock"
    /\ IF thread_locks[t] = ResourceOf(t)
       THEN /\ pc' = [pc EXCEPT ![t] = "clear_status"]
            /\ UNCHANGED local
       ELSE ReturnFrom(t)
    /\ UNCHANGED detvars
    /\ RaceUnchanged

\* line 26: self.resource_status[resource_id] = None
ClearStatus(t) ==
    /\ pc[t] = "clear_status"
    /\ resource_status' = [resource_status EXCEPT ![ResourceOf(t)] = None]
    /\ pc' = [pc EXCEPT ![t] = "clear_lock"]
    /\ UNCHANGED <<thread_locks, waiting_threads, local>>
    /\ RaceUnchanged

\* line 27: self.thread_locks[thread_id] = None
ClearLock(t) ==
    /\ pc[t] = "clear_lock"
    /\ thread_locks' = [thread_locks EXCEPT ![t] = None]
    /\ ReturnFrom(t)
    /\ UNCHANGED <<resource_status, waiting_threads>>
    /\ RaceUnchanged

NextDetRace ==
    \/ \E t \in DetThreads : TestStatus(t)
    \/ \E t \in DetThreads : SetStatus(t)
    \/ \E t \in DetThreads : SetLock(t)
    \/ \E t \in DetThreads : AddWaiting(t)
    \/ \E t \in DetThreads : TestLock(t)
    \/ \E t \in DetThreads : ClearStatus(t)
    \/ \E t \in DetThreads : ClearLock(t)

SpecDetRace == InitDetRace /\ [][NextDetRace]_vars

-----------------------------------------------------------------------------
(* The threads of bankeralgodeadlock.py: three threads call                 *)
(* request_resources and release_resources on one ledger, with no lock.     *)
(* A step is one check, the snapshot, one iteration of a loop, the          *)
(* is_safe call, or the rollback; every step is a whole number of           *)
(* statements, so each behaviour is an interleaving of statements.          *)

\* The calls the threads make between them
MaxRaceCalls == 3

\* A thread outside any call
NoFrame == [amounts |-> Vec(0, 0, 0), i |-> 0, original_available |-> <<>>]

InitBankRace ==
    /\ num_resources = 3
    /\ available = [j \in Resources(3) |-> InitialAvailable]
    /\ max = InitialMax
    /\ allocation = InitialAllocation
    /\ need = calculate_need([num_resources |-> 3, max |-> InitialMax,
                              allocation |-> InitialAllocation])
    /\ op = NoCall
    /\ ret = "None"
    /\ outcome = "none"
    /\ safe = NoSafe
    /\ pre = NoLedger
    /\ undone = NoLedger
    /\ calls = 0
    /\ NoDetector
    /\ pc = [t \in Threads |-> "idle"]
    /\ local = [t \in Threads |-> NoFrame]

BankRaceUnchanged ==
    UNCHANGED <<num_resources, max, op, ret, outcome, safe, pre, undone, detvars>>

\* Thread t returns from its call
Return(t) ==
    /\ pc' = [pc EXCEPT ![t] = "idle"]
    /\ local' = [local EXCEPT ![t] = NoFrame]

\* Thread t moves to the statement at label
Goto(t, label) ==
    /\ pc' = [pc EXCEPT ![t] = label]
    /\ UNCHANGED local

\* banker.request_resources(thread_id, request) is entered
EnterRequest(t, request) ==
    /\ pc[t] = "idle"
    /\ calls < MaxRaceCalls
    /\ calls' = calls + 1
    /\ pc' = [pc EXCEPT ![t] = "check_need"]
    /\ local' = [local EXCEPT ![t] = [NoFrame EXCEPT !.amounts = request]]
    /\ UNCHANGED <<available, allocation, need>>
    /\ BankRaceUnchanged

\* banker.release_resources(thread_id, release) is entered, with a release
\* within what the ledger records as allocated to the thread
EnterRelease(t, release) ==
    /\ pc[t] = "idle"
    /\ calls < MaxRaceCalls
    /\ \A i \in Resources(num_resources) : release[i] <= allocation[t][i]
    /\ calls' = calls + 1
    /\ pc' = [pc EXCEPT ![t] = "release_loop"]
    /\ local' = [local EXCEPT ![t] = [NoFrame EXCEPT !.amounts = release]]
    /\ UNCHANGED <<available, allocation, need>>
    /\ BankRaceUnchanged

\* line 49-51: the request against the declared need
CheckNeed(t) ==
    /\ pc[t] = "check_need"
    /\ IF ExceedsNeed(Self, t, local[t].amounts)
       THEN Return(t)
       ELSE Goto(t, "check_available")
    /\ UNCHANGED <<available, allocation, need, calls>>
    /\ BankRaceUnchanged

\* line 54-56: the request against what is available
CheckAvailable(t) ==
    /\ pc[t] = "check_available"
    /\ IF ExceedsAvailable(Self, local[t].amounts)
       THEN Return(t)
       ELSE Goto(t, "snapshot")
    /\ UNCHANGED <<available, allocation, need, calls>>
    /\ BankRaceUnchanged

\* lines 59-61: original_available is a copy of the integers;
\* original_allocation and original_need are copies of the outer lists, whose
\* rows stay the rows of the ledger, so they carry no values of their own
Snapshot(t) ==
    /\ pc[t] = "snapshot"
    /\ pc' = [pc EXCEPT ![t] = "allocate_loop"]
    /\ local' = [local EXCEPT ![t].original_available = available]
    /\ UNCHANGED <<available, allocation, need, calls>>
    /\ BankRaceUnchanged

\* lines 64-67: one iteration of the allocation loop
AllocateStep(t) ==
    LET i == local[t].i
        request == local[t].amounts
    IN  /\ pc[t] = "allocate_loop"
        /\ IF i < num_resources
           THEN /\ available' = [available EXCEPT ![i] = @ - request[i]]
                /\ allocation' = [allocation EXCEPT ![t][i] = @ + request[i]]
                /\ need' = [need EXCEPT ![t][i] = @ - request[i]]
                /\ local' = [local EXCEPT ![t].i = i + 1]
                /\ UNCHANGED pc
           ELSE /\ Goto(t, "validate")
                /\ UNCHANGED <<available, allocation, need>>
        /\ UNCHANGED calls
        /\ BankRaceUnchanged

\* lines 69-71 and 79-80: is_safe on the ledger as it is now
Validate(t) ==
    /\ pc[t] = "validate"
    /\ IF is_safe(Self).ok
       THEN Return(t)
       ELSE Goto(t, "rollback")
    /\ UNCHANGED <<available, allocation, need, calls>>
    /\ BankRaceUnchanged

\* lines 73-77: available becomes the copy taken at line 59; the outer lists
\* assigned at lines 74-75 hold the rows the ledger already has
Rollback(t) ==
    /\ pc[t] = "rollback"
    /\ available' = local[t].original_available
    /\ allocation' = Deref(RowRefs(allocation), allocation)
    /\ need' = Deref(RowRefs(need), need)
    /\ Return(t)
    /\ UNCHANGED calls
    /\ BankRaceUnchanged

\* lines 84-88: one iteration of the release loop
ReleaseStep(t) ==
    LET i == local[t].i
        release == local[t].amounts
    IN  /\ pc[t] = "release_loop"
        /\ IF i < num_resources
           THEN /\ available' = [available EXCEPT ![i] = @ + release[i]]
                /\ allocation' = [allocation EXCEPT ![t][i] = @ - release[i]]
                /\ need' = [need EXCEPT ![t][i] = @ + release[i]]
                /\ local' = [local EXCEPT ![t].i = i + 1]
                /\ UNCHANGED pc
           ELSE /\ Return(t)
                /\ UNCHANGED <<available, allocation, need>>
        /\ UNCHANGED calls
        /\ BankRaceUnchanged

NextBankRace ==
    \/ \E t \in Threads : \E request \in Amounts : EnterRequest(t, request)
    \/ \E t \in Threads : \E release \in Amounts : EnterRelease(t, release)
    \/ \E t \in Threads : CheckNeed(t)
    \/ \E t \in Threads : CheckAvailable(t)
    \/ \E t \in Threads : Snapshot(t)
    \/ \E t \in Threads : AllocateStep(t)
    \/ \E t \in Threads : Validate(t)
    \/ \E t \in Threads : Rollback(t)
    \/ \E t \in Threads : ReleaseStep(t)

SpecBankRace == InitBankRace /\ [][NextBankRace]_vars

-----------------------------------------------------------------------------
(* Definitions the properties are stated with *)

ZeroAmounts == Vec(0, 0, 0)

RECURSIVE SumAllocation(_, _, _)
\* allocation[0][c] + ... + allocation[n-1][c]
SumAllocation(al, c, n) ==
    IF n = 0 THEN 0 ELSE al[n - 1][c] + SumAllocation(al, c, n - 1)

\* total[c]: what the initial ledger holds of class c
Total(c) == InitialAvailable + SumAllocation(InitialAllocation, c, num_threads)

IsRequest == op.kind = "request"
IsRelease == op.kind = "release"

\* The orderings of all threads
Orderings ==
    {p \in [1 .. num_threads -> Threads] :
        \A a, b \in 1 .. num_threads : a # b => p[a] # p[b]}

RECURSIVE SumBefore(_, _, _, _)
\* allocation[p[1]][j] + ... + allocation[p[k]][j]
SumBefore(al, p, k, j) ==
    IF k = 0 THEN 0 ELSE al[p[k]][j] + SumBefore(al, p, k - 1, j)

\* Each thread's need is, in every class, at most available plus the
\* allocations of the threads before it in p.
SafeOrdering(p) ==
    \A k \in 1 .. num_threads : \A j \in Resources(num_resources) :
        need[p[k]][j] <= available[j] + SumBefore(allocation, p, k - 1, j)

NonNegativeAllocation ==
    \A i \in Threads : \A j \in Resources(num_resources) : allocation[i][j] >= 0

-----------------------------------------------------------------------------
(* Properties *)

\* C1: in every reachable state, for every class c, available[c] plus the
\* sum over all threads of allocation[thread][c] equals total[c].
C1_Conservation ==
    \A c \in Resources(num_resources) :
        available[c] + SumAllocation(allocation, c, num_threads) = Total(c)

\* C2: a request denied as unsafe returns failure and leaves available,
\* allocation and need exactly as they were before the call.
C2_DeniedUnsafeRollsBack ==
    (IsRequest /\ outcome = "DeniedUnsafe") => (ret = "False" /\ Ledger = pre)

\* C3: whenever request_resources returns true, is_safe evaluated on the
\* ledger right after the call returns true.
C3_GrantedIsSafe ==
    (IsRequest /\ ret = "True") => is_safe(Self).ok

C3_Witness ==
    IsRequest /\ ret = "True" /\ op.amounts # ZeroAmounts

\* C4: a release of more than the thread holds in some class fails with
\* OverRelease and leaves the ledger unchanged, and no allocation entry is
\* ever negative.
C4_OverReleaseRejected ==
    /\ (IsRelease /\ \E c \in Resources(num_resources) :
                        op.amounts[c] > pre.allocation[op.thread_id][c])
          => (outcome = "OverRelease" /\ Ledger = pre)
    /\ NonNegativeAllocation

\* C5: in every reachable state, for every thread and class,
\* allocation + need = max.
C5_NeedConsistent ==
    \A i \in Threads : \A j \in Resources(num_resources) :
        allocation[i][j] + need[i][j] = max[i][j]

C5_Witness ==
    /\ IsRelease
    /\ op.amounts # ZeroAmounts
    /\ \E i \in Threads : i # op.thread_id /\ allocation[i] # InitialAllocation[i]

\* C6: a request rejected by a pre-check (more than the need, or more than
\* is available) returns failure and leaves the ledger as it was.
C6_RejectedUnchanged ==
    (IsRequest /\ outcome \in {"ExceedsDeclaredNeed", "InsufficientAvailable"})
        => (ret = "False" /\ Ledger = pre)

C6_Witness ==
    /\ IsRequest
    /\ outcome = "InsufficientAvailable"
    /\ \A c \in Resources(num_resources) : op.amounts[c] <= need[op.thread_id][c]

\* C7: on a ledger with non-negative allocation, is_safe returns true
\* exactly when some ordering of all threads is a safe ordering.
C7_SafeIffOrdering ==
    (op.kind = "is_safe" /\ NonNegativeAllocation)
        => (safe.ok <=> \E p \in Orderings : SafeOrdering(p))

\* is_safe answered true with a sequence that does not start with thread 0,
\* on a ledger where some thread cannot finish on what is available alone.
C7_Witness ==
    /\ op.kind = "is_safe"
    /\ safe.ok
    /\ safe.seq[1] # 0
    /\ \E i \in Threads : ~CanFinish(Self, available, i)

\* C8 (as stated): on scenario A, is_safe returns true with a sequence of
\* all three threads in which each successive thread's need is satisfiable.
C8_ScenarioASafe ==
    (op.kind = "is_safe" /\ Ledger = ScenarioA)
        => /\ safe.ok
           /\ safe.seq \in Orderings
           /\ SafeOrdering(safe.seq)

\* C8 (amended): on scenario A, is_safe returns false with the partial
\* sequence [1], and no ordering of the three threads is a safe ordering.
C8_ScenarioAUnsafe ==
    (op.kind = "is_safe" /\ Ledger = ScenarioA)
        => /\ safe = [ok |-> FALSE, seq |-> <<1>>]
           /\ ~ \E p \in Orderings : SafeOrdering(p)

C8_Witness ==
    op.kind = "is_safe" /\ Ledger = ScenarioA

\* C9: a request of the all-zero vector is granted from every reachable
\* ledger, and leaves the ledger unchanged.
C9_ZeroRequestGranted ==
    (IsRequest /\ op.amounts = ZeroAmounts) => (ret = "True" /\ Ledger = pre)

\* C10: a granted request directly followed by a release of the same
\* amounts by the same thread leaves available, allocation and need as they
\* were before the request.
C10_ReleaseUndoesGrant ==
    (IsRelease /\ undone # NoLedger) => Ledger = undone

C10_Witness ==
    IsRelease /\ undone # NoLedger /\ op.amounts # ZeroAmounts

\* The object as it was before the last call
PreSelf == [num_resources |-> num_resources, available |-> pre.available,
            max |-> max, allocation |-> pre.allocation, need |-> pre.need]

PickedBefore(k) == {safe.seq[m] : m \in 1 .. k}

\* Thread i's need is at most work in every class, where work is available
\* plus the allocations of the first k threads of the returned sequence.
FitsAfter(i, k) ==
    \A j \in Resources(num_resources) :
        need[i][j] <= available[j] + SumBefore(allocation, safe.seq, k, j)

\* C20: the sequence is_safe returns is the one the rule builds: each entry
\* is the lowest-index thread not picked before whose need fits the work so
\* far; the answer is true exactly when all threads were picked, each once;
\* on false no thread that is left fits; there are at most num_threads picks,
\* and the ledger is as it was before the call.
C20_SequenceByRule ==
    (op.kind = "is_safe") =>
        /\ Len(safe.seq) <= num_threads
        /\ \A k \in 1 .. Len(safe.seq) :
              /\ safe.seq[k] \in Threads \ PickedBefore(k - 1)
              /\ FitsAfter(safe.seq[k], k - 1)
              /\ \A i \in Threads \ PickedBefore(k - 1) :
                    i < safe.seq[k] => ~FitsAfter(i, k - 1)
        /\ safe.ok <=> (Len(safe.seq) = num_threads)
        /\ safe.ok => PickedBefore(Len(safe.seq)) = Threads
        /\ ~safe.ok =>
              \A i \in Threads \ PickedBefore(Len(safe.seq)) :
                  ~FitsAfter(i, Len(safe.seq))
        /\ Ledger = pre

\* is_safe went back to a lower index after a pick (true), or stopped with
\* a proper, non-empty prefix (false).
C20_Witness ==
    /\ op.kind = "is_safe"
    /\ \/ safe.ok /\ safe.seq[1] > safe.seq[2]
       \/ ~safe.ok /\ Len(safe.seq) = 2 /\ safe.seq[1] > safe.seq[2]

-----------------------------------------------------------------------------
(* Properties of the detector *)

\* A waits for B (two distinct threads): some resource of waiting[A] is held
\* by B, the holder taken from resource_status.
StatusEdges(self) ==
    {e \in DetThreads \X DetThreads :
        /\ e[1] # e[2]
        /\ \E r \in self.waiting_threads[e[1]] : self.resource_status[r] = e[2]}

\* The same, the holder taken from the lock slots, as check_deadlock does.
LockEdges(self) ==
    {e \in DetThreads \X DetThreads :
        /\ e[1] # e[2]
        /\ \E r \in self.waiting_threads[e[1]] : self.thread_locks[e[2]] = r}

RECURSIVE Paths(_, _)
\* The pairs joined by a path of 1 .. n edges
Paths(E, n) ==
    IF n <= 1 THEN E
    ELSE LET P == Paths(E, n - 1)
         IN  P \cup {e \in DetThreads \X DetThreads :
                        \E b \in DetThreads : <<e[1], b>> \in P /\ <<b, e[2]>> \in E}

HasCycle(E) == \E a \in DetThreads : <<a, a>> \in Paths(E, det_num_threads)

\* The edges of E that lie on a cycle
CycleEdges(E) == {e \in E : <<e[2], e[1]>> \in Paths(E, det_num_threads)}

IsDetRelease == op.kind = "release"

\* C12: whenever the wait-for relation (holders from resource_status) has a
\* cycle, check_deadlock reports a deadlock.
C12_CycleReported ==
    (op.kind = "check_deadlock" /\ HasCycle(StatusEdges(Detector)))
        => ret = "True"

\* C13: after release_resource(t, r) called by the holder of r, r is free
\* and t's lock slot does not name it.
C13_HolderReleaseFrees ==
    (IsDetRelease /\ pre.resource_status[op.resource_id] = op.thread_id)
        => /\ resource_status[op.resource_id] = None
           /\ thread_locks[op.thread_id] # op.resource_id

\* C14: no thread's waiting set contains a resource that thread holds.
C14_NotWaitingOnHeld ==
    \A t \in DetThreads : \A r \in waiting_threads[t] : resource_status[r] # t

\* C15: after a release made by the holder, the released resource is in no
\* thread's waiting set.
C15_ReleaseClearsWaiting ==
    (IsDetRelease /\ outcome = "released")
        => \A t \in DetThreads : op.resource_id \notin waiting_threads[t]

\* C16: a pass of deadlock_prevention that detected a cycle ends with at
\* least one edge of a detected cycle removed (the method has no way of
\* signalling NoProgress).
C16_PreventionProgress ==
    (op.kind = "deadlock_prevention" /\ outcome = "detected")
        => \E e \in CycleEdges(LockEdges(pre)) : e \notin LockEdges(Detector)

\* C19: when check_deadlock returns true, the wait-for relation (holders
\* from resource_status) has a cycle.
C19_NoFalseDeadlock ==
    (op.kind = "check_deadlock" /\ ret = "True")
        => HasCycle(StatusEdges(Detector))

\* check_deadlock returned true in a state where a thread also waits for a
\* thread outside every cycle.
C19_Witness ==
    /\ op.kind = "check_deadlock"
    /\ ret = "True"
    /\ StatusEdges(Detector) # CycleEdges(StatusEdges(Detector))

\* C17: no resource is recorded as held by two distinct threads: no
\* t1 # t2 and r with thread_locks[t1] = r and thread_locks[t2] = r.
C17_SingleHolder ==
    \A t1, t2 \in DetThreads : \A r \in DetResources :
        (thread_locks[t1] = r /\ thread_locks[t2] = r) => t1 = t2

\* C18: every entry of available is at least 0 in every reachable state.
C18_AvailableNonNegative ==
    \A i \in DOMAIN available : available[i] >= 0

====
